---- MODULE Spec2Model ----
(***************************************************************************)
(* Model of ssh-key's private.rs: the OpenSSH v1 private key container     *)
(* (PrivateKey, KeypairData, padding_len).  The PEM body is modelled as a  *)
(* sequence of bytes; the decoder is a pure function over the remaining    *)
(* bytes returning [err, val, rest].                                       *)
(***************************************************************************)
EXTENDS Integers, Sequences, FiniteSets, TLC

VARIABLES key, last, crypt, encOf, pad

vars == <<key, last, crypt, encOf, pad>>

----------------------------------------------------------------------------
(* Bounds of the model *)

\* longest comment given to new()
MaxComment == 5
\* number of distinct Ed25519 keypairs
NumKeys == 2
\* most bytes appended after the private region of a file
MaxTrail == 1
\* largest input length given to padding_len in SpecPad
MaxLen == 40

----------------------------------------------------------------------------
(* Program constants *)

DEFAULT_BLOCK_SIZE == 8

MAX_BLOCK_SIZE == 16

PADDING_BYTES == <<1, 2, 3, 4, 5, 6, 7, 8, 9, 10, 11, 12, 13, 14, 15>>

\* b"openssh-key-v1\0"
AUTH_MAGIC == <<111, 112, 101, 110, 115, 115, 104, 45, 107, 101, 121, 45, 118, 49, 0>>

TYPE_LABEL == "OPENSSH PRIVATE KEY"

\* size of an Ed25519 public key and of an Ed25519 private key
BYTE_SIZE == 32

\* salt size and default rounds of Kdf::new
SALT_SIZE == 16

DEFAULT_ROUNDS == 16

\* block size of Cipher::Aes256Ctr
AES_BLOCK_SIZE == 16

\* wire names
NameNone == <<110, 111, 110, 101>>

NameAes256Ctr == <<97, 101, 115, 50, 53, 54, 45, 99, 116, 114>>

NameBcrypt == <<98, 99, 114, 121, 112, 116>>

NameEd25519 == <<115, 115, 104, 45, 101, 100, 50, 53, 53, 49, 57>>

----------------------------------------------------------------------------
(* Byte codec (Decoder / Encoder) *)

Ok(v, r) == [err |-> "", val |-> v, rest |-> r]

Err(e) == [err |-> e, val |-> <<>>, rest |-> <<>>]

Drop(d, n) == SubSeq(d, n + 1, Len(d))

Take(d, n) == SubSeq(d, 1, n)

Rep(b, n) == [i \in 1..n |-> b]

encode_u32(n) ==
    << (n \div 16777216) % 256, (n \div 65536) % 256, (n \div 256) % 256, n % 256 >>

encode_str(s) == encode_u32(Len(s)) \o s

\* values above 2^31 - 1 are read as 2^31 - 1: they occur only as lengths, which
\* no input is long enough to satisfy
decode_u32(d) ==
    IF Len(d) < 4 THEN Err("Length")
    ELSE IF d[1] >= 128 THEN Ok(2147483647, Drop(d, 4))
    ELSE Ok(d[1] * 16777216 + d[2] * 65536 + d[3] * 256 + d[4], Drop(d, 4))

decode_raw(d, n) ==
    IF Len(d) < n THEN Err("Length") ELSE Ok(Take(d, n), Drop(d, n))

\* the ? operator: an error ends the function, a value goes on to F
Then(r, F(_)) == IF r.err # "" THEN r ELSE F(r)

decode_byte_vec(d) ==
    Then(decode_u32(d), LAMBDA n : decode_raw(n.rest, n.val))

\* decode_length_prefixed(f): read a u32 N, run f over exactly N bytes; f must
\* consume all of them
decode_length_prefixed(d, F(_)) ==
    Then(decode_u32(d), LAMBDA n :
    IF Len(n.rest) < n.val THEN Err("Length")
    ELSE Then(F(Take(n.rest, n.val)), LAMBDA r :
         IF r.rest # <<>> THEN Err("Length")
         ELSE Ok(r.val, Drop(n.rest, n.val))))

RECURSIVE Xor(_, _)
Xor(a, b) ==
    IF a = 0 /\ b = 0 THEN 0
    ELSE (((a % 2) + (b % 2)) % 2) + 2 * Xor(a \div 2, b \div 2)

----------------------------------------------------------------------------
(* Cipher descriptor: Option<Cipher> is "None" or "Aes256Ctr" *)

Cipher_encode(c) ==
    IF c = "None" THEN encode_str(NameNone) ELSE encode_str(NameAes256Ctr)

Cipher_decode(d) ==
    Then(decode_byte_vec(d), LAMBDA s :
    IF s.val = NameNone THEN Ok("None", s.rest)
    ELSE IF s.val = NameAes256Ctr THEN Ok("Aes256Ctr", s.rest)
    ELSE Err("Algorithm"))

block_size(c) == AES_BLOCK_SIZE

\* keystream byte i of AES-CTR under the derived key k
Keystream(k, i) == (k * i) % 256

\* CTR mode: encryption and decryption are the same XOR with the keystream
Cipher_encrypt(k, buf) == [i \in 1..Len(buf) |-> Xor(buf[i], Keystream(k, i))]

Cipher_decrypt(k, buf) == [i \in 1..Len(buf) |-> Xor(buf[i], Keystream(k, i))]

----------------------------------------------------------------------------
(* KDF descriptor *)

KdfNone == [tag |-> "None", salt |-> <<>>, rounds |-> 0]

KdfBcrypt(salt, rounds) == [tag |-> "Bcrypt", salt |-> salt, rounds |-> rounds]

\* Kdf::new(Default::default(), rng): 16 bytes of salt from the rng
Kdf_new(s) == KdfBcrypt(Rep(s, SALT_SIZE), DEFAULT_ROUNDS)

Kdf_encode(k) ==
    IF k.tag = "None" THEN encode_str(NameNone) \o encode_str(<<>>)
    ELSE encode_str(NameBcrypt)
         \o encode_str(encode_str(k.salt) \o encode_u32(k.rounds))

Kdf_decode_opts(o) ==
    Then(decode_byte_vec(o), LAMBDA salt :
    Then(decode_u32(salt.rest), LAMBDA rounds :
    Ok(KdfBcrypt(salt.val, rounds.val), rounds.rest)))

Kdf_decode(d) ==
    Then(decode_byte_vec(d), LAMBDA name :
    IF name.val = NameNone THEN
         Then(decode_u32(name.rest), LAMBDA n :
         IF n.val # 0 THEN Err("Algorithm") ELSE Ok(KdfNone, n.rest))
    ELSE IF name.val = NameBcrypt THEN
         decode_length_prefixed(name.rest, Kdf_decode_opts)
    ELSE Err("Algorithm"))

\* bcrypt-pbkdf over (password, salt, rounds), as one derived byte
derive_key_and_iv(k, cipher, password) ==
    IF k.tag = "None" THEN Err("Decrypted")
    ELSE IF k.salt = <<>> \/ k.rounds = 0 THEN Err("Crypto")
    ELSE Ok((password + k.salt[1] + k.rounds) % 256, <<>>)

----------------------------------------------------------------------------
(* Algorithm tag and public key data *)

Algorithm_decode(d) ==
    Then(decode_byte_vec(d), LAMBDA s :
    IF s.val = NameEd25519 THEN Ok("Ed25519", s.rest) ELSE Err("Algorithm"))

PublicKeyData(bytes) == [alg |-> "Ed25519", bytes |-> bytes]

PublicKeyData_encode(pk) == encode_str(NameEd25519) \o encode_str(pk.bytes)

Ed25519PublicKey_decode(d) ==
    Then(decode_byte_vec(d), LAMBDA s :
    IF Len(s.val) # BYTE_SIZE THEN Err("Length") ELSE Ok(s.val, s.rest))

PublicKeyData_decode(d) ==
    Then(Algorithm_decode(d), LAMBDA a :
    Then(Ed25519PublicKey_decode(a.rest), LAMBDA k :
    Ok(PublicKeyData(k.val), k.rest)))

\* deterministic 32-bit digest: XOR of the big-endian 4-byte chunks, kept as
\* its four big-endian bytes
RECURSIVE XorFold(_, _, _)
XorFold(bytes, j, acc) ==
    IF j > Len(bytes) THEN acc ELSE XorFold(bytes, j + 4, Xor(acc, bytes[j]))

checkint(pk) ==
    << XorFold(pk.bytes, 1, 0), XorFold(pk.bytes, 2, 0),
       XorFold(pk.bytes, 3, 0), XorFold(pk.bytes, 4, 0) >>

\* PublicKey::from(KeyData): empty comment
PublicKey_from(kd) == [key_data |-> kd, comment |-> <<>>]

\* PublicKey::decode_comment: a string, validated as UTF-8 (here: ASCII)
decode_comment(public_key, d) ==
    Then(decode_byte_vec(d), LAMBDA s :
    IF \E i \in 1..Len(s.val) : s.val[i] >= 128 THEN Err("Utf8")
    ELSE Ok([public_key EXCEPT !.comment = s.val], s.rest))

----------------------------------------------------------------------------
(* Ed25519 keypair body: string public || string (private || public) *)

Ed25519Keypair(public, private) ==
    [tag |-> "Ed25519", public |-> public, private |-> private, ciphertext |-> <<>>]

Encrypted(ciphertext) ==
    [tag |-> "Encrypted", public |-> <<>>, private |-> <<>>, ciphertext |-> ciphertext]

Ed25519Keypair_encode(kp) == encode_str(kp.public) \o encode_str(kp.private \o kp.public)

Ed25519Keypair_encoded_len(kp) == 4 + Len(kp.public) + 4 + Len(kp.private) + Len(kp.public)

Ed25519Keypair_decode(d) ==
    Then(Ed25519PublicKey_decode(d), LAMBDA public :
    Then(decode_byte_vec(public.rest), LAMBDA bytes :
    IF Len(bytes.val) # 2 * BYTE_SIZE THEN Err("Length")
    ELSE IF Drop(bytes.val, BYTE_SIZE) # public.val THEN Err("Crypto")
    ELSE Ok(Ed25519Keypair(public.val, Take(bytes.val, BYTE_SIZE)), bytes.rest)))

----------------------------------------------------------------------------
(* KeypairData *)

KeypairData_is_encrypted(kd) == kd.tag = "Encrypted"

\* TryFrom<&KeypairData> for public::KeyData
PublicKeyData_try_from(kd) ==
    IF kd.tag = "Encrypted" THEN Err("Encrypted")
    ELSE Ok(PublicKeyData(kd.public), <<>>)

\* KeypairData::decode reporting a checkint mismatch as a format error
KeypairData_decode_fmt(d) ==
    Then(decode_raw(d, 4), LAMBDA checkint1 :
    Then(decode_raw(checkint1.rest, 4), LAMBDA checkint2 :
    IF checkint1.val # checkint2.val THEN Err("FormatEncoding")
    ELSE Then(Algorithm_decode(checkint2.rest), LAMBDA alg :
         Ed25519Keypair_decode(alg.rest))))

KeypairData_decode(d) ==
    Then(decode_raw(d, 4), LAMBDA checkint1 :
    Then(decode_raw(checkint1.rest, 4), LAMBDA checkint2 :
    IF checkint1.val # checkint2.val THEN Err("Crypto")
    ELSE Then(Algorithm_decode(checkint2.rest), LAMBDA alg :
         Ed25519Keypair_decode(alg.rest))))

KeypairData_encoded_len(kd) ==
    LET header_len == IF KeypairData_is_encrypted(kd) THEN 0
                      ELSE 8 + 4 + Len(NameEd25519)
        key_len == IF kd.tag = "Encrypted" THEN Len(kd.ciphertext)
                   ELSE Ed25519Keypair_encoded_len(kd)
    IN  header_len + key_len

KeypairData_encode(kd) ==
    IF KeypairData_is_encrypted(kd) THEN kd.ciphertext
    ELSE LET c == checkint(PublicKeyData_try_from(kd).val) IN
         c \o c \o encode_str(NameEd25519)
         \o Ed25519Keypair_encode(kd)

\* encoded_len_with_comment without the length prefix of the comment
encoded_len_with_comment_noprefix(kd, comment) ==
    KeypairData_encoded_len(kd) + Len(comment)

encoded_len_with_comment(kd, comment) ==
    KeypairData_encoded_len(kd) + 4 + Len(comment)

\* padding_len without the input_rem == 0 case
padding_len_nozero(input_size, bs) ==
    bs - (input_size % bs)

padding_len(input_size, bs) ==
    LET input_rem == input_size % bs IN
    IF input_rem = 0 THEN 0 ELSE bs - input_rem

encode_with_comment(kd, comment, bs) ==
    IF KeypairData_is_encrypted(kd) THEN Err("Encrypted")
    ELSE LET private_key_len == encoded_len_with_comment(kd, comment)
             plen == padding_len(private_key_len, bs)
         IN  Ok(KeypairData_encode(kd) \o encode_str(comment)
                \o Take(PADDING_BYTES, plen), <<>>)

\* the padding check at the end of decode_with_comment: p is what is left
\* after the comment
check_padding(p, bs) ==
    IF Len(p) >= bs THEN "Length"
    ELSE IF Len(p) # 0 /\ Take(PADDING_BYTES, Len(p)) # p THEN "FormatEncoding"
    ELSE ""

\* decode_with_comment without the public key comparison
decode_with_comment_nopubcheck(d, public_key, bs) ==
    IF Len(d) % bs # 0 THEN Err("Length")
    ELSE Then(KeypairData_decode(d), LAMBDA key_data :
    Then(decode_comment(public_key, key_data.rest), LAMBDA pk :
    IF check_padding(pk.rest, bs) # "" THEN Err(check_padding(pk.rest, bs))
    ELSE Ok(<<key_data.val, pk.val>>, <<>>)))

\* decode_with_comment without the comparison of the padding bytes
decode_with_comment_anypad(d, public_key, bs) ==
    IF Len(d) % bs # 0 THEN Err("Length")
    ELSE Then(KeypairData_decode(d), LAMBDA key_data :
    IF public_key.key_data # PublicKeyData_try_from(key_data.val).val
    THEN Err("PublicKey")
    ELSE Then(decode_comment(public_key, key_data.rest), LAMBDA pk :
    IF Len(pk.rest) >= bs THEN Err("Length")
    ELSE Ok(<<key_data.val, pk.val>>, <<>>)))

\* decode_with_comment reading the comment before the public key comparison
decode_with_comment_commentfirst(d, public_key, bs) ==
    IF Len(d) % bs # 0 THEN Err("Length")
    ELSE Then(KeypairData_decode(d), LAMBDA key_data :
    Then(decode_comment(public_key, key_data.rest), LAMBDA pk :
    IF public_key.key_data # PublicKeyData_try_from(key_data.val).val
    THEN Err("PublicKey")
    ELSE IF check_padding(pk.rest, bs) # "" THEN Err(check_padding(pk.rest, bs))
    ELSE Ok(<<key_data.val, pk.val>>, <<>>)))

\* val is <<key_data, public_key>>: the public key carries the decoded comment
decode_with_comment(d, public_key, bs) ==
    IF Len(d) % bs # 0 THEN Err("Length")
    ELSE Then(KeypairData_decode(d), LAMBDA key_data :
    IF public_key.key_data # PublicKeyData_try_from(key_data.val).val
    THEN Err("PublicKey")
    ELSE Then(decode_comment(public_key, key_data.rest), LAMBDA pk :
    IF check_padding(pk.rest, bs) # "" THEN Err(check_padding(pk.rest, bs))
    ELSE Ok(<<key_data.val, pk.val>>, <<>>)))

\* the value of r, or dflt when r is an error
ValOr(r, dflt) == IF r.err # "" THEN dflt ELSE r.val

\* what decode_with_comment leaves in its &mut public_key argument: the comment
\* is stored by decode_comment, which runs only after the comparison passed
decode_with_comment_public_key(d, public_key, bs) ==
    IF Len(d) % bs # 0 THEN public_key
    ELSE ValOr(Then(KeypairData_decode(d), LAMBDA key_data :
                    IF public_key.key_data # PublicKeyData_try_from(key_data.val).val
                    THEN Err("PublicKey")
                    ELSE decode_comment(public_key, key_data.rest)),
               public_key)

----------------------------------------------------------------------------
(* PrivateKey *)

PrivateKey(cipher, kdf, public_key, key_data) ==
    [cipher |-> cipher, kdf |-> kdf, public_key |-> public_key, key_data |-> key_data]

is_encrypted(k) == KeypairData_is_encrypted(k.key_data)

try_from(key_data) ==
    Then(PublicKeyData_try_from(key_data), LAMBDA public_key :
    Ok(PrivateKey("None", KdfNone, PublicKey_from(public_key.val), key_data), <<>>))

new(key_data, comment) ==
    IF KeypairData_is_encrypted(key_data) THEN Err("Encrypted")
    ELSE Then(try_from(key_data), LAMBDA private_key :
         Ok([private_key.val EXCEPT !.public_key.comment = comment], <<>>))

\* private_key_len without the padding
private_key_len_nopad(k, bs) ==
    IF is_encrypted(k) THEN KeypairData_encoded_len(k.key_data)
    ELSE encoded_len_with_comment(k.key_data, k.public_key.comment)

private_key_len(k, bs) ==
    IF is_encrypted(k) THEN KeypairData_encoded_len(k.key_data)
    ELSE LET len == encoded_len_with_comment(k.key_data, k.public_key.comment) IN
         len + padding_len(len, bs)

\* the private region as written after the length prefix, for block size bs:
\* the ciphertext as it is, or the keypair with comment and padding
encode_private(k, bs) ==
    IF is_encrypted(k) THEN Ok(KeypairData_encode(k.key_data), <<>>)
    ELSE encode_with_comment(k.key_data, k.public_key.comment, bs)

\* the bytes of the PEM body written by encode_openssh
encode_openssh(k) ==
    Then(IF is_encrypted(k) THEN Ok(KeypairData_encode(k.key_data), <<>>)
         ELSE encode_with_comment(k.key_data, k.public_key.comment, DEFAULT_BLOCK_SIZE),
         LAMBDA priv :
         Ok(AUTH_MAGIC \o Cipher_encode(k.cipher) \o Kdf_encode(k.kdf)
            \o encode_u32(1)
            \o encode_str(PublicKeyData_encode(k.public_key.key_data))
            \o encode_u32(private_key_len(k, DEFAULT_BLOCK_SIZE))
            \o priv.val, <<>>))

Cipher_encoded_len(c) == 4 + Len(IF c = "None" THEN NameNone ELSE NameAes256Ctr)

Kdf_encoded_len(k) ==
    IF k.tag = "None" THEN 4 + Len(NameNone) + 4
    ELSE 4 + Len(NameBcrypt) + 4 + 4 + Len(k.salt) + 4

PublicKeyData_encoded_len(pk) == 4 + Len(NameEd25519) + 4 + Len(pk.bytes)

\* bytes_len of openssh_encoded_len: the size the output buffer is computed from
openssh_encoded_len(k) ==
    Len(AUTH_MAGIC) + Cipher_encoded_len(k.cipher) + Kdf_encoded_len(k.kdf)
    + 4
    + 4 + PublicKeyData_encoded_len(k.public_key.key_data)
    + 4 + private_key_len(k, DEFAULT_BLOCK_SIZE)

\* the encoder rejects a buffer shorter than what is written; Base64 and line
\* wrapping grow with the number of bytes and are left to the PEM codec
to_openssh(k) ==
    Then(encode_openssh(k), LAMBDA out :
    IF Len(out.val) > openssh_encoded_len(k) THEN Err("Length") ELSE out)

from_openssh_private(public_key, d) ==
    decode_with_comment(d, public_key, DEFAULT_BLOCK_SIZE)

\* input is [label, body]; rest of the result is the unread part of the body
from_openssh(input) ==
    IF input.label # TYPE_LABEL THEN Err("PemLabel")
    ELSE Then(decode_raw(input.body, Len(AUTH_MAGIC)), LAMBDA auth_magic :
    IF auth_magic.val # AUTH_MAGIC THEN Err("FormatEncoding")
    ELSE Then(Cipher_decode(auth_magic.rest), LAMBDA cipher :
    Then(Kdf_decode(cipher.rest), LAMBDA kdf :
    Then(decode_u32(kdf.rest), LAMBDA nkeys :
    IF nkeys.val # 1 THEN Err("Length")
    ELSE Then(decode_length_prefixed(nkeys.rest, PublicKeyData_decode), LAMBDA pkd :
    IF cipher.val # "None" THEN
         Then(decode_byte_vec(pkd.rest), LAMBDA ct :
         IF ct.rest # <<>> THEN Err("Length")
         ELSE Ok(PrivateKey(cipher.val, kdf.val, PublicKey_from(pkd.val),
                            Encrypted(ct.val)), ct.rest))
    ELSE Then(decode_length_prefixed(pkd.rest,
                 LAMBDA sub : from_openssh_private(PublicKey_from(pkd.val), sub)),
              LAMBDA kd :
              Ok(PrivateKey(cipher.val, kdf.val, kd.val[2], kd.val[1]), kd.rest)))))))

\* decrypt keeping the cipher and kdf of the encrypted key
decrypt_keepcipher(k, password) ==
    IF k.cipher = "None" THEN Err("Decrypted")
    ELSE Then(derive_key_and_iv(k.kdf, k.cipher, password), LAMBDA keys :
    IF k.key_data.tag # "Encrypted" THEN Err("Decrypted")
    ELSE Then(decode_with_comment(Cipher_decrypt(keys.val, k.key_data.ciphertext),
                                  k.public_key, block_size(k.cipher)),
              LAMBDA kd : Ok(PrivateKey(k.cipher, k.kdf, kd.val[2], kd.val[1]), <<>>)))

\* decrypt reporting the wrong state error
decrypt_wrongerr(k, password) ==
    IF k.cipher = "None" THEN Err("Encrypted")
    ELSE Then(derive_key_and_iv(k.kdf, k.cipher, password), LAMBDA keys :
    IF k.key_data.tag # "Encrypted" THEN Err("Encrypted")
    ELSE Then(decode_with_comment(Cipher_decrypt(keys.val, k.key_data.ciphertext),
                                  k.public_key, block_size(k.cipher)),
              LAMBDA kd : Ok(PrivateKey("None", KdfNone, kd.val[2], kd.val[1]), <<>>)))

decrypt(k, password) ==
    IF k.cipher = "None" THEN Err("Decrypted")
    ELSE Then(derive_key_and_iv(k.kdf, k.cipher, password), LAMBDA keys :
    IF k.key_data.tag # "Encrypted" THEN Err("Decrypted")
    ELSE Then(decode_with_comment(Cipher_decrypt(keys.val, k.key_data.ciphertext),
                                  k.public_key, block_size(k.cipher)),
              LAMBDA kd : Ok(PrivateKey("None", KdfNone, kd.val[2], kd.val[1]), <<>>)))

\* encrypt handing the whole public key, comment included, to the result
encrypt_keepcomment(k, s, password) ==
    IF is_encrypted(k) THEN Err("Encrypted")
    ELSE Then(derive_key_and_iv(Kdf_new(s), "Aes256Ctr", password), LAMBDA keys :
    Then(encode_with_comment(k.key_data, k.public_key.comment,
                             block_size("Aes256Ctr")), LAMBDA buffer :
    Ok(PrivateKey("Aes256Ctr", Kdf_new(s), k.public_key,
                  Encrypted(Cipher_encrypt(keys.val, buffer.val))), <<>>)))

\* s is the salt byte drawn from the rng
encrypt(k, s, password) ==
    IF is_encrypted(k) THEN Err("Encrypted")
    ELSE Then(derive_key_and_iv(Kdf_new(s), "Aes256Ctr", password), LAMBDA keys :
    Then(encode_with_comment(k.key_data, k.public_key.comment,
                             block_size("Aes256Ctr")), LAMBDA buffer :
    Ok(PrivateKey("Aes256Ctr", Kdf_new(s), PublicKey_from(k.public_key.key_data),
                  Encrypted(Cipher_encrypt(keys.val, buffer.val))), <<>>)))

----------------------------------------------------------------------------
(* Inputs *)

KeypairOf(id) ==
    Ed25519Keypair([i \in 1..BYTE_SIZE |-> (40 * id + i) % 256],
                   [i \in 1..BYTE_SIZE |-> (40 * id + 100 + i) % 256])

Keypairs == { KeypairOf(id) : id \in 1..NumKeys }

\* key data handed to new / try_from: keypairs and one ciphertext
KeypairDatas == Keypairs \cup { Encrypted(Rep(0, AES_BLOCK_SIZE)) }

Comments == { Rep(97, n) : n \in 0..MaxComment }

\* 129 derives a key whose keystream differs from that of 1 by the same
\* amount in both checkints
Passwords == {1, 2, 129}

Salts == {3}

NoTamper == [kind |-> "none", a |-> 0, b |-> 0]

CipherIdx(a) == IF a = 0 THEN "None" ELSE "Aes256Ctr"

KdfIdx(b) == IF b = 0 THEN KdfNone ELSE Kdf_new(3)

Frame(c, kd, n, pub, priv, trail) ==
    AUTH_MAGIC \o c \o kd \o encode_u32(n) \o encode_str(pub) \o encode_str(priv)
    \o trail

\* the private region as encode_openssh writes it
PrivPart(k) ==
    IF is_encrypted(k) THEN k.key_data.ciphertext
    ELSE encode_with_comment(k.key_data, k.public_key.comment, DEFAULT_BLOCK_SIZE).val

PadLenOf(k, bs) ==
    padding_len(encoded_len_with_comment(k.key_data, k.public_key.comment), bs)

\* plaintext region of k for block size bs, padding replaced by p
PlainWith(k, bs, p) ==
    LET r == encode_with_comment(k.key_data, k.public_key.comment, bs).val IN
    Take(r, Len(r) - PadLenOf(k, bs)) \o p

Patch(p, i, b) == [p EXCEPT ![i] = b]

\* the byte a padding tamper writes: 0 or the next padding byte
WrongByte(t) == IF t.b = 0 THEN 0 ELSE t.a + 1

\* the ciphertext file made from a plaintext region under password 1
EncFrame(k, plain) ==
    Frame(Cipher_encode("Aes256Ctr"), Kdf_encode(Kdf_new(3)), 1,
          PublicKeyData_encode(k.public_key.key_data),
          Cipher_encrypt(derive_key_and_iv(Kdf_new(3), "Aes256Ctr", 1).val, plain),
          <<>>)

\* a public key that belongs to none of the keypairs
ForeignPublicKeyData == PublicKeyData(KeypairOf(0).public)

\* the plaintext region p of k with the first byte of its comment made invalid
\* UTF-8
BadComment(k, p) == Patch(p, KeypairData_encoded_len(k.key_data) + 4 + 1, 200)

Tampers(k) ==
    {NoTamper}
    \cup { [kind |-> "trail", a |-> n, b |-> 0] : n \in 1..MaxTrail }
    \cup { [kind |-> "label", a |-> 0, b |-> 0] }
    \cup { [kind |-> "hdr", a |-> a, b |-> b] : a \in 0..1, b \in 0..1 }
    \cup { [kind |-> "pub", a |-> 0, b |-> 0] }
    \cup (IF is_encrypted(k) \/ k.public_key.comment = <<>> THEN {}
          ELSE { [kind |-> "pubcomment", a |-> 0, b |-> 0],
                 [kind |-> "encpubcomment", a |-> 0, b |-> 0] })
    \cup (IF is_encrypted(k) THEN {}
          ELSE { [kind |-> "pad", a |-> i, b |-> b] :
                    i \in 1..PadLenOf(k, DEFAULT_BLOCK_SIZE), b \in 0..1 }
               \cup { [kind |-> "padblock", a |-> 0, b |-> 0] }
               \cup { [kind |-> "encpad", a |-> i, b |-> b] :
                    i \in 1..PadLenOf(k, AES_BLOCK_SIZE), b \in 0..1 }
               \cup { [kind |-> "encblock", a |-> 0, b |-> 0] })

Build(k, t) ==
    LET body ==
        CASE t.kind = "none" -> to_openssh(k).val
          [] t.kind = "label" -> to_openssh(k).val
          [] t.kind = "trail" -> to_openssh(k).val \o Rep(0, t.a)
          [] t.kind = "hdr" ->
               Frame(Cipher_encode(CipherIdx(t.a)), Kdf_encode(KdfIdx(t.b)), 1,
                     PublicKeyData_encode(k.public_key.key_data), PrivPart(k), <<>>)
          [] t.kind = "pub" ->
               Frame(Cipher_encode(k.cipher), Kdf_encode(k.kdf), 1,
                     PublicKeyData_encode(ForeignPublicKeyData),
                     PrivPart(k), <<>>)
          [] t.kind = "pubcomment" ->
               Frame(Cipher_encode(k.cipher), Kdf_encode(k.kdf), 1,
                     PublicKeyData_encode(ForeignPublicKeyData),
                     BadComment(k, PrivPart(k)), <<>>)
          [] t.kind = "encpubcomment" ->
               EncFrame([k EXCEPT !.public_key.key_data = ForeignPublicKeyData],
                        BadComment(k, PlainWith(k, AES_BLOCK_SIZE,
                            Take(PADDING_BYTES, PadLenOf(k, AES_BLOCK_SIZE)))))
          [] t.kind = "pad" ->
               Frame(Cipher_encode(k.cipher), Kdf_encode(k.kdf), 1,
                     PublicKeyData_encode(k.public_key.key_data),
                     PlainWith(k, DEFAULT_BLOCK_SIZE,
                        Patch(Take(PADDING_BYTES, PadLenOf(k, DEFAULT_BLOCK_SIZE)),
                              t.a, WrongByte(t))), <<>>)
          [] t.kind = "padblock" ->
               Frame(Cipher_encode(k.cipher), Kdf_encode(k.kdf), 1,
                     PublicKeyData_encode(k.public_key.key_data),
                     PlainWith(k, DEFAULT_BLOCK_SIZE,
                        Take(PADDING_BYTES,
                             PadLenOf(k, DEFAULT_BLOCK_SIZE) + DEFAULT_BLOCK_SIZE)),
                     <<>>)
          [] t.kind = "encpad" ->
               EncFrame(k, PlainWith(k, AES_BLOCK_SIZE,
                        Patch(Take(PADDING_BYTES, PadLenOf(k, AES_BLOCK_SIZE)),
                              t.a, WrongByte(t))))
          [] t.kind = "encblock" ->
               EncFrame(k, PlainWith(k, AES_BLOCK_SIZE,
                        Take(PADDING_BYTES, PadLenOf(k, AES_BLOCK_SIZE))
                        \o Rep(0, AES_BLOCK_SIZE)))
    IN  [label |-> IF t.kind = "label" THEN "PRIVATE KEY" ELSE TYPE_LABEL,
         body |-> body]

----------------------------------------------------------------------------
(* State machine: key is the PrivateKey the program holds, last records the
   last call and its outcome (was: crypt before the call), crypt the last
   successful encrypt/decrypt on this key's lineage, encOf the input and password of the encryption whose
   result is being decrypted. *)

NoKd == Encrypted(<<>>)

NoKey == PrivateKey("None", KdfNone, PublicKey_from(PublicKeyData(<<>>)), NoKd)

NoEnc == [set |-> FALSE, p |-> NoKey, pw |-> 0]

\* no call in progress
Idle == [op |-> "idle", err |-> "", in |-> NoKey, kd |-> NoKd, comment |-> <<>>,
         pw |-> 0, tamper |-> NoTamper, unread |-> <<>>, was |-> "none",
         bs |-> 0, len |-> 0, emitted |-> <<>>]

Call(op, r, kd, comment, pw, t) ==
    /\ last = Idle
    /\ last' = [op |-> op, err |-> r.err, in |-> key, kd |-> kd,
                comment |-> comment, pw |-> pw, tamper |-> t,
                unread |-> IF r.err = "" THEN r.rest ELSE <<>>, was |-> crypt,
                bs |-> 0, len |-> 0, emitted |-> <<>>]
    /\ key' = IF r.err = "" THEN r.val ELSE key
    /\ UNCHANGED pad

Init ==
    /\ \E kd \in Keypairs : key = try_from(kd).val
    /\ last = Idle
    /\ crypt = "none"
    /\ encOf = NoEnc
    /\ pad = [input_size |-> 0, block_size |-> 1, out |-> padding_len(0, 1)]

TryFrom(kd) ==
    LET r == try_from(kd) IN
    /\ Call("try_from", r, kd, <<>>, 0, NoTamper)
    /\ crypt' = IF r.err = "" THEN "none" ELSE crypt
    /\ encOf' = NoEnc

New(kd, comment) ==
    LET r == new(kd, comment) IN
    /\ Call("new", r, kd, comment, 0, NoTamper)
    /\ crypt' = IF r.err = "" THEN "none" ELSE crypt
    /\ encOf' = NoEnc

\* to_openssh of the held key, possibly tampered with, read back
FromOpenssh(t) ==
    LET r == from_openssh(Build(key, t)) IN
    /\ Call("from_openssh", r, NoKd, <<>>, 0, t)
    /\ crypt' = IF r.err = "" THEN "none" ELSE crypt
    /\ encOf' = NoEnc

Encrypt(s, pw) ==
    LET r == encrypt(key, s, pw) IN
    /\ Call("encrypt", r, NoKd, <<>>, pw, NoTamper)
    /\ crypt' = IF r.err = "" THEN "encrypt" ELSE crypt
    /\ encOf' = IF r.err = "" THEN [set |-> TRUE, p |-> key, pw |-> pw] ELSE NoEnc

Decrypt(pw) ==
    LET r == decrypt(key, pw) IN
    /\ Call("decrypt", r, NoKd, <<>>, pw, NoTamper)
    /\ UNCHANGED encOf
    /\ crypt' = IF r.err = "" THEN "decrypt" ELSE crypt

\* private_key_len(bs) of the held key and the private region then written
\* for that block size (bs is 8 in encode_openssh, 16 in encrypt)
PrivateKeyLen(bs) ==
    /\ last = Idle
    /\ last' = [Idle EXCEPT !.op = "private_key_len", !.in = key, !.was = crypt,
                            !.err = encode_private(key, bs).err,
                            !.bs = bs, !.len = private_key_len(key, bs),
                            !.emitted = encode_private(key, bs).val]
    /\ UNCHANGED <<key, crypt, encOf, pad>>

\* the caller takes the result; the held key stays
Return ==
    /\ last # Idle
    /\ last' = Idle
    /\ encOf' = IF last.op = "decrypt" THEN NoEnc ELSE encOf
    /\ UNCHANGED <<key, crypt, pad>>

Next ==
    \/ \E kd \in KeypairDatas : TryFrom(kd)
    \/ \E kd \in KeypairDatas, c \in Comments : New(kd, c)
    \/ \E t \in Tampers(key) : FromOpenssh(t)
    \/ \E s \in Salts, pw \in Passwords : Encrypt(s, pw)
    \/ \E pw \in Passwords : Decrypt(pw)
    \/ \E bs \in 1..MAX_BLOCK_SIZE : PrivateKeyLen(bs)
    \/ Return

Spec == Init /\ [][Next]_vars

----------------------------------------------------------------------------
(* padding_len on its own, over every block size *)

PaddingLen(L, B) ==
    /\ pad' = [input_size |-> L, block_size |-> B, out |-> padding_len(L, B)]
    /\ UNCHANGED <<key, last, crypt, encOf>>

NextPad == \E L \in 0..MaxLen, B \in 1..MAX_BLOCK_SIZE : PaddingLen(L, B)

SpecPad == Init /\ [][NextPad]_vars

----------------------------------------------------------------------------
(* Properties *)

\* the buffer decrypt parses: the ciphertext of k decrypted under password pw
DecryptedBuffer(k, pw) ==
    Cipher_decrypt(derive_key_and_iv(k.kdf, k.cipher, pw).val, k.key_data.ciphertext)

\* decrypt reaches its parse of the buffer
ReachesParse(k, pw) ==
    /\ k.cipher # "None"
    /\ k.key_data.tag = "Encrypted"
    /\ derive_key_and_iv(k.kdf, k.cipher, pw).err = ""

\* decode_with_comment up to and including the comment; rest is the padding
BeforePadding(d, public_key) ==
    Then(KeypairData_decode(d), LAMBDA key_data :
    IF public_key.key_data # PublicKeyData_try_from(key_data.val).val
    THEN Err("PublicKey")
    ELSE decode_comment(public_key, key_data.rest))

\* C1: reading back the untampered to_openssh output of the held key succeeds
\* and returns a key equal to it in cipher, kdf, public key, comment and key data
C1_RoundTrip ==
    (last.op = "from_openssh" /\ last.tamper = NoTamper)
        => (last.err = "" /\ key = last.in)

C1_Witness ==
    /\ last.op = "from_openssh" /\ last.tamper = NoTamper /\ last.err = ""
    /\ ~is_encrypted(last.in)
    /\ Len(last.in.public_key.comment) = 2
    /\ key = last.in

\* C2: encrypt of an unencrypted key succeeds, and decrypting its result with
\* the same password succeeds and returns a key equal to the one encrypted
C2_EncryptRoundTrip ==
    /\ (last.op = "encrypt" /\ ~is_encrypted(last.in)) => last.err = ""
    /\ (last.op = "decrypt" /\ encOf.set /\ last.pw = encOf.pw)
          => (last.err = "" /\ key = encOf.p)

\* C3: the held key always has cipher.is_some() == key_data.is_encrypted()
C3_CipherAgrees ==
    (key.cipher # "None") <=> KeypairData_is_encrypted(key.key_data)

C3_Witness ==
    /\ last.op = "decrypt" /\ last.err = ""
    /\ last.in.cipher # "None" /\ key.cipher = "None"
    /\ key.key_data.tag = "Ed25519"

\* C4: the held key has kdf None exactly when it is unencrypted
C4_KdfAgrees ==
    (key.kdf = KdfNone) <=> (key.cipher = "None" /\ ~KeypairData_is_encrypted(key.key_data))

\* C5: in every unencrypted held key the public key derived from key_data is
\* the stored public key data
C5_PublicConsistent ==
    ~is_encrypted(key)
        => PublicKeyData_try_from(key.key_data).val = key.public_key.key_data

C5_Witness ==
    /\ last.op = "decrypt" /\ last.err = ""
    /\ ~is_encrypted(key)
    /\ key.public_key.key_data = PublicKeyData(key.key_data.public)
    /\ key.public_key.comment # <<>>

\* C6: a decrypt whose block-aligned decrypted buffer starts with two different
\* 32-bit words fails with Crypto and returns no key
C6_WrongPasswordCrypto ==
    (/\ last.op = "decrypt"
     /\ ReachesParse(last.in, last.pw)
     /\ Len(last.in.key_data.ciphertext) % block_size(last.in.cipher) = 0
     /\ Len(last.in.key_data.ciphertext) >= 8
     /\ Take(DecryptedBuffer(last.in, last.pw), 4)
            # SubSeq(DecryptedBuffer(last.in, last.pw), 5, 8))
        => (last.err = "Crypto" /\ key = last.in)

C6_Witness ==
    /\ last.op = "decrypt" /\ last.err = "Crypto"
    /\ encOf.set /\ last.pw # encOf.pw
    /\ key = last.in

\* C7: encrypt on an encrypted key fails with Encrypted, decrypt on an
\* unencrypted key with Decrypted, new with Encrypted key data with Encrypted,
\* none of them returning a key; successful encrypt and decrypt calls alternate
C7_WrongState ==
    /\ (last.op = "encrypt" /\ is_encrypted(last.in))
          => (last.err = "Encrypted" /\ key = last.in)
    /\ (last.op = "decrypt" /\ last.in.cipher = "None")
          => (last.err = "Decrypted" /\ key = last.in)
    /\ (last.op = "new" /\ KeypairData_is_encrypted(last.kd))
          => (last.err = "Encrypted" /\ key = last.in)
    /\ (last.op \in {"encrypt", "decrypt"} /\ last.err = "") => last.was # last.op

C7_Witness ==
    /\ last.op = "decrypt" /\ last.err = "Decrypted"
    /\ last.was = "decrypt"
    /\ ~is_encrypted(last.in)

\* C8: a file with bytes appended after the private region is rejected with
\* Length, and from_openssh never succeeds leaving bytes of the body unread
C8_TrailingBytes ==
    /\ (last.op = "from_openssh" /\ last.tamper.kind = "trail") => last.err = "Length"
    /\ (last.op = "from_openssh" /\ last.err = "") => last.unread = <<>>

\* C9: padding_len(L, B) < B, L + padding_len(L, B) is a multiple of B, it equals
\* (B - L mod B) mod B, and it is below MAX_BLOCK_SIZE
C9_PaddingFormula ==
    /\ pad.out < pad.block_size
    /\ (pad.input_size + pad.out) % pad.block_size = 0
    /\ pad.out = (pad.block_size - (pad.input_size % pad.block_size)) % pad.block_size
    /\ pad.out < MAX_BLOCK_SIZE

C9_Witness ==
    /\ pad.block_size = MAX_BLOCK_SIZE
    /\ pad.input_size = 2 * MAX_BLOCK_SIZE
    /\ pad.out = 0

\* C10: once the keypair and comment are parsed, k remaining bytes are accepted
\* only if k < block_size and they are the first k padding bytes; k >= block_size
\* fails with Length, any other byte with FormatEncoding; a file with one
\* padding byte changed fails with FormatEncoding
C10_PaddingChecked ==
    /\ (last.op = "from_openssh" /\ last.tamper.kind = "pad")
          => last.err = "FormatEncoding"
    /\ (last.op = "from_openssh" /\ last.tamper.kind = "padblock")
          => last.err = "Length"
    /\ (/\ last.op = "decrypt"
        /\ ReachesParse(last.in, last.pw)
        /\ Len(last.in.key_data.ciphertext) % block_size(last.in.cipher) = 0
        /\ BeforePadding(DecryptedBuffer(last.in, last.pw), last.in.public_key).err = "")
          => LET p == BeforePadding(DecryptedBuffer(last.in, last.pw),
                                    last.in.public_key).rest
                 bs == block_size(last.in.cipher)
             IN  /\ Len(p) >= bs => last.err = "Length"
                 /\ (Len(p) < bs /\ p # Take(PADDING_BYTES, Len(p)))
                       => last.err = "FormatEncoding"
                 /\ last.err = "" => (Len(p) < bs /\ p = Take(PADDING_BYTES, Len(p)))

C10_Witness ==
    /\ last.op = "from_openssh" /\ last.tamper.kind = "pad"
    /\ last.tamper.a = 3
    /\ last.err = "FormatEncoding"

\* the private region of the file that tamper t builds from the unencrypted key k
\* with a foreign public key
MismatchedRegion(k, t) ==
    IF t.kind = "pub" THEN PrivPart(k) ELSE BadComment(k, PrivPart(k))

\* C11: when the private region parses to a keypair whose public key differs
\* from the one supplied (the outer one in from_openssh, the stored one in
\* decrypt), the call fails with PublicKey and returns no key, whatever the
\* comment holds, and the supplied public key keeps its comment
C11_PublicKeyMismatch ==
    /\ (/\ last.op = "from_openssh"
        /\ last.tamper.kind \in {"pub", "pubcomment"}
        /\ ~is_encrypted(last.in))
          => /\ last.err = "PublicKey"
             /\ key = last.in
             /\ decode_with_comment_public_key(
                    MismatchedRegion(last.in, last.tamper),
                    PublicKey_from(ForeignPublicKeyData), DEFAULT_BLOCK_SIZE)
                  = PublicKey_from(ForeignPublicKeyData)
    /\ (/\ last.op = "decrypt"
        /\ ReachesParse(last.in, last.pw)
        /\ Len(last.in.key_data.ciphertext) % block_size(last.in.cipher) = 0
        /\ KeypairData_decode(DecryptedBuffer(last.in, last.pw)).err = ""
        /\ PublicKeyData_try_from(
              KeypairData_decode(DecryptedBuffer(last.in, last.pw)).val).val
             # last.in.public_key.key_data)
          => /\ last.err = "PublicKey"
             /\ key = last.in
             /\ decode_with_comment_public_key(
                    DecryptedBuffer(last.in, last.pw), last.in.public_key,
                    block_size(last.in.cipher))
                  = last.in.public_key

C11_Witness ==
    /\ last.op = "from_openssh" /\ last.tamper.kind = "pub"
    /\ last.err = "PublicKey"
    /\ ~is_encrypted(last.in)
    /\ Len(last.in.public_key.comment) = 3
    /\ key = last.in

\* C12: every encrypted key returned by from_openssh or encrypt holds a
\* ciphertext whose length is a multiple of the block size of its cipher, and
\* from_openssh rejects a file naming a cipher whose private blob is not
C12_CiphertextAligned ==
    /\ (last.op \in {"from_openssh", "encrypt"} /\ last.err = "" /\ is_encrypted(key))
          => Len(key.key_data.ciphertext) % block_size(key.cipher) = 0
    /\ (/\ last.op = "from_openssh"
        /\ last.tamper.kind = "hdr" /\ CipherIdx(last.tamper.a) # "None"
        /\ Len(PrivPart(last.in)) % block_size(CipherIdx(last.tamper.a)) # 0)
          => last.err # ""

\* C13 as stated: the key returned by encrypt of an unencrypted key has the
\* public key of that key, key data and comment
C13_EncryptKeepsPublicKey ==
    (last.op = "encrypt" /\ last.err = "" /\ ~is_encrypted(last.in))
        => key.public_key = last.in.public_key

\* C13 amended: the key returned by encrypt of an unencrypted key has the
\* public key data of that key and an empty comment; a failed encrypt returns
\* no key
C13_EncryptKeepsKeyData ==
    /\ (last.op = "encrypt" /\ last.err = "" /\ ~is_encrypted(last.in))
          => /\ key.public_key.key_data = last.in.public_key.key_data
             /\ key.public_key.comment = <<>>
    /\ (last.op = "encrypt" /\ last.err # "") => key = last.in

C13_Witness ==
    /\ last.op = "encrypt" /\ last.err = ""
    /\ ~is_encrypted(last.in)
    /\ Len(last.in.public_key.comment) = 4
    /\ key.public_key.key_data = last.in.public_key.key_data
    /\ key.public_key.comment = <<>>

\* C14: for every held key and block size B in 1..16, private_key_len(B) is
\* the number of bytes written for the private region: the length of the
\* ciphertext when the key is encrypted, otherwise the length of what
\* encode_with_comment(comment, B) writes, which is
\* encoded_len_with_comment(comment) + padding_len and a multiple of B
C14_PrivateKeyLenExact ==
    last.op = "private_key_len"
        => /\ last.err = ""
           /\ last.len = Len(last.emitted)
           /\ is_encrypted(last.in)
                 => last.len = Len(last.in.key_data.ciphertext)
           /\ ~is_encrypted(last.in)
                 => /\ last.len % last.bs = 0
                    /\ last.len =
                         encoded_len_with_comment(last.in.key_data,
                                                  last.in.public_key.comment)
                         + padding_len(encoded_len_with_comment(
                                           last.in.key_data,
                                           last.in.public_key.comment), last.bs)
                    /\ last.len - encoded_len_with_comment(
                                      last.in.key_data, last.in.public_key.comment)
                          < last.bs

C14_Witness ==
    /\ last.op = "private_key_len"
    /\ ~is_encrypted(last.in)
    /\ Len(last.in.public_key.comment) = 5
    /\ last.bs = 7
    /\ last.len = 140 /\ Len(last.emitted) = 140

====
